---- MODULE Spec2Model ----
(***************************************************************************)
(* CardSwap: the card auto-rotation engine of the portfolio site.          *)
(*                                                                         *)
(* The component keeps a ref `order` (front-to-back list of card indices), *)
(* a ref `tlRef` (the GSAP timeline created by the latest swap), a ref     *)
(* `intervalRef` (the id returned by the latest setInterval) and runs one  *)
(* effect whose body places the cards, calls swap() once, arms             *)
(* setInterval(swap, delay) and, if pauseOnHover, subscribes pause/resume  *)
(* to mouseenter/mouseleave of the container.                              *)
(*                                                                         *)
(* Time is measured in milliseconds.  The GSAP ticker advances every       *)
(* playing timeline once per frame (action Tick); a callback placed at     *)
(* time e of a timeline runs in the frame in which the playhead reaches e. *)
(* A setInterval callback is a task that becomes runnable when its period  *)
(* has elapsed (action TimerFire).  JavaScript runs every handler to       *)
(* completion, so while the effect body is running (pc # "idle") nothing   *)
(* else is enabled.                                                        *)
(*                                                                         *)
(* Spec is the engine with every card handle attached and with re-runs of  *)
(* the effect.  CardsSpec is the engine of a single effect run with any    *)
(* subset of the card handles attached and with clicks on the cards.       *)
(* SlotSpec applies the slot calculator makeSlot to arguments drawn from   *)
(* bounded sets.  AboutSpec is the scroll highlighter of the About         *)
(* section (AboutSection.jsx).  LiveSpec is the engine of a single effect  *)
(* run that is never torn down, with fairness of the steps the browser     *)
(* and React schedule.  ModalSpec is the image modal of the home page      *)
(* (Home and ImageModal), CursorSpec the cursor follower                    *)
(* (CursorFollow.jsx).  The variables of one component keep their initial  *)
(* value in the specifications of the others.                              *)
(***************************************************************************)
EXTENDS Integers, Sequences, FiniteSets, TLC

\* ------------------------------------------------------------------ bounds
MaxCards == 3
MaxRestarts == 1
MaxCycles == 3
FrameMs == 500
MaxDelta == 3

\* ------------------------------------------------------- program constants
cardDistance == 60
verticalDistance == 70
StaggerMs == 150
NumRegions == 3
speedPct == 15          \* CursorFollow: speed 0.15, in percent

Easings == {"elastic", "power"}
Delays == {5000}

VARIABLES
  total,      \* refs.length = childArr.length, fixed for the lifetime
  order,      \* order.current
  live,       \* cards whose refs[i].current is a DOM element (not null)
  phase,      \* "new" (rendered, effect not yet run), "active", "gone"
  pc,         \* position inside the running effect body, or "idle"
  props,      \* [delay, easing, pauseOnHover] captured by the current effect
  listening,  \* mouseenter/mouseleave listeners are attached to the container
  hover,      \* the pointer is inside the container
  timers,     \* armed intervals; cur marks the one whose id is in intervalRef
  tls,        \* timelines that have not finished; cur marks tlRef.current
  zIndex,     \* style.zIndex of each card (0 = never set)
  isFront,    \* data-is-front of each card
  dest,       \* the slot each card was last sent to: by placeNow or by the
              \* start of a tween (-1 = never placed)
  calls,      \* number of calls of swap (saturates at MaxCycles)
  completed,  \* number of order updates run by timelines (saturates)
  stalled,    \* some timeline was paused and then dropped by tlRef
  restarts,   \* number of re-runs of the effect after a dependency change
  held,       \* pause() has run under the current effect, resume() not since
  clicked,    \* the last click: card, its position in order, callback argument
  slotArgs,   \* [distX, distY, total] handed to the slot calculator
  slots,      \* the slots computed from slotArgs, for i = 0 .. total - 1
  activeCard, \* AboutSection: the state activeCard
  inBand,     \* AboutSection: isIntersecting last reported for each region
  entries,    \* AboutSection: the batch handed to the last observer callback
  observer,   \* AboutSection: "none", "observing" or "stopped"
  modal,      \* Home and ImageModal: the state modalImage and theme, the
              \* last render of the modal and what its effect has set
  cursor      \* CursorFollow: the refs, the mousemove listener and the
              \* requested animation frames

slotVars == <<slotArgs, slots>>
pageVars == <<modal, cursor>>
aboutVars == <<activeCard, inBand, entries, observer>>

vars == <<total, order, live, phase, pc, props, listening, hover, timers, tls,
          zIndex, isFront, dest, calls, completed, stalled, restarts, held, clicked,
          slotArgs, slots, activeCard, inBand, entries, observer, modal,
          cursor>>

engineVars == <<total, order, live, phase, pc, props, listening, hover, timers,
                tls, zIndex, isFront, dest, calls, completed, stalled, restarts, held,
                clicked>>

\* ----------------------------------------------------------------- helpers
Cards == 0 .. (total - 1)

\* a card that nothing has placed yet
Unplaced == -1

\* the target of placeNow and of the tweens to makeSlot(i, ...)
AtSlot(i) == i

\* no card has been clicked yet
NoClick == [card |-> -1, pos |-> -1, arg |-> -1]

\* the observed regions of the About section: card0Ref, card1Ref, card2Ref
Regions == 0 .. (NumRegions - 1)

\* the distances handed to the slot calculator
Deltas == (0 .. MaxDelta) \cup {cardDistance, verticalDistance}

Identity(n) == [i \in 1 .. n |-> i - 1]

Max2(a, b) == IF a >= b THEN a ELSE b

Bump(n) == IF n < MaxCycles THEN n + 1 ELSE n

IsPermutation(s, n) ==
  /\ Len(s) = n
  /\ \A c \in 0 .. (n - 1) : \E i \in 1 .. n : s[i] = c
  /\ \A i, j \in 1 .. n : s[i] = s[j] => i = j

RotateLeft(s, k) ==
  [i \in 1 .. Len(s) |-> s[((i - 1 + k) % Len(s)) + 1]]

\* ------------------------------------------------------- animation config
durDrop(e) == IF e = "elastic" THEN 2000 ELSE 800
durMove(e) == IF e = "elastic" THEN 2000 ELSE 800
durReturn(e) == IF e = "elastic" THEN 2000 ELSE 800
promoteOverlapPct(e) == IF e = "elastic" THEN 90 ELSE 45
returnDelayPct(e) == IF e = "elastic" THEN 5 ELSE 20

MaxOf(S) == CHOOSE m \in S : \A x \in S : x <= m

\* the slot calculator with the stacking order growing towards the back
makeSlotBackOnTop(i, distX, distY, n) ==
  [x |-> i * distX, y |-> -(i * distY), z2 |-> -(i * distX * 3), zIndex |-> i + 1]

\* makeSlot(i, distX, distY, total), lines 214-219; z is -i * distX * 1.5,
\* kept as z2 = 2 * z so that the factor 1.5 stays exact in integers
makeSlot(i, distX, distY, n) ==
  [x |-> i * distX, y |-> -(i * distY), z2 |-> -(i * distX * 3), zIndex |-> n - i]

\* the promote label put at the end of the DROP tween
PromoteAtDropEnd(e) == durDrop(e)

\* the promote label put at the fraction promoteOverlap of the DROP tween,
\* measured from its start
PromoteAtOverlapPoint(e) == (durDrop(e) * promoteOverlapPct(e)) \div 100

\* tl.addLabel('promote', `-=${durDrop * promoteOverlap}`): measured back
\* from the end of the DROP tween, the only child of the timeline so far
PromoteAt(e) == durDrop(e) - (durDrop(e) * promoteOverlapPct(e)) \div 100

\* start of the move of the card going to position i: `promote+=${i * 0.15}`
MoveAt(e, i) == PromoteAt(e) + i * StaggerMs

\* tl.addLabel('return', `promote+=${durMove * returnDelay}`)
ReturnAt(e) == PromoteAt(e) + (durMove(e) * returnDelayPct(e)) \div 100

\* the end of the timeline, where the final tl.call (no position) is put:
\* the latest end of the DROP tween, the moves and the RETURN tween
CommitAt(e, n) ==
  Max2(durDrop(e),
       Max2(MoveAt(e, n - 2) + durMove(e), ReturnAt(e) + durReturn(e)))

\* the ends of the moves of the remaining cards that have a handle
MoveEnds(t) ==
  {MoveAt(t.easing, i - 1) + durMove(t.easing) :
     i \in {j \in 1 .. Len(t.rest) : t.rest[j] \in t.els}}

\* the final callback put at the end of the DROP tween
TimelineEndAtDrop(t) == durDrop(t.easing)

\* the timeline with its three tweens played one after the other
TimelineEndSequential(t) ==
  durDrop(t.easing) + durMove(t.easing) + durReturn(t.easing)

\* the end of the timeline t, where its final tl.call is put: CommitAt when
\* every remaining card has a handle
TimelineEnd(t) ==
  MaxOf({durDrop(t.easing), ReturnAt(t.easing) + durReturn(t.easing)}
        \cup MoveEnds(t))

\* --------------------------------------------------------------- timelines
Uncur(s) == [i \in 1 .. Len(s) |-> [s[i] EXCEPT !.cur = FALSE]]

\* a paused timeline that tlRef no longer refers to can never be played
\* again (play() is only ever called on tlRef.current): it is dropped from
\* the state and recorded in `stalled`
Unreachable(t) == t.paused /\ ~t.cur
Reachable(t) == ~Unreachable(t)
Reap(s) == SelectSeq(s, Reachable)
NumReaped(s) == Len(s) - Len(Reap(s))

\* swap() without the test of the front handle
SwapRunsAnyFront == Len(order) >= 2

\* swap() with the size test off by one
SwapRunsOffByOne == Len(order) >= 1 /\ order[1] \in live

\* swap(): line 392 `if (order.current.length < 2) return`,
\* line 397 `if (!elFront) return`
SwapRuns == Len(order) >= 2 /\ order[1] \in live

\* swap() run by a closure whose config is the preset e: the timeline it
\* builds, with the [front, ...rest] captured at call time
\* els: the cards whose handle is attached when swap runs; the tweens and
\* callbacks of the timeline keep these elements.  end: the duration of the
\* timeline once swap has built it, where its final callback is
NewTimeline(e) ==
  [front |-> order[1], rest |-> Tail(order), els |-> live, easing |-> e,
   end |-> TimelineEnd([rest |-> Tail(order), els |-> live, easing |-> e]),
   pos |-> 0, paused |-> FALSE, cur |-> TRUE]

SwapTls(e) ==
  IF SwapRuns THEN Append(Reap(Uncur(tls)), NewTimeline(e)) ELSE tls

SwapStalled == stalled \/ (SwapRuns /\ NumReaped(Uncur(tls)) > 0)

\* a callback or tween placed at time e runs in the frame that moves the
\* playhead from p to q when p < e <= q
Fired(e, p, q) == p < e /\ e <= q

IndexIn(s, c) == CHOOSE i \in 1 .. Len(s) : s[i] = c
Occurs(s, c) == \E i \in 1 .. Len(s) : s[i] = c

\* the remaining cards that swap() gives a PROMOTE: line 423 `if (!el) return`
Promoted(t, c) == Occurs(t.rest, c) /\ c \in t.els

\* PROMOTE giving the new zIndex at the label to the first remaining card
\* only
ApplyPromoteFirstOnly(t, st) ==
  [st EXCEPT
     !.zIndex[t.rest[1]] = makeSlot(0, cardDistance, verticalDistance,
                                    total).zIndex,
     !.isFront = [c \in DOMAIN st.isFront |->
                   IF Promoted(t, c)
                   THEN IndexIn(t.rest, c) = 1
                   ELSE st.isFront[c]]]

\* PROMOTE, lines 421-471: at the label, every remaining card gets the
\* zIndex of the slot one closer to the front; data-is-front is true for the
\* first of them and false for the others
ApplyPromote(t, st) ==
  [st EXCEPT
     !.zIndex = [c \in DOMAIN st.zIndex |->
                   IF Promoted(t, c)
                   THEN makeSlot(IndexIn(t.rest, c) - 1, cardDistance,
                                 verticalDistance, total).zIndex
                   ELSE st.zIndex[c]],
     !.isFront = [c \in DOMAIN st.isFront |->
                   IF Promoted(t, c)
                   THEN IndexIn(t.rest, c) = 1
                   ELSE st.isFront[c]]]

\* the moves without the stagger: every card starts at the promote label
MoveStartsAtLabel(t, k) == PromoteAt(t.easing)

\* lines 433-443: the tween of the k-th remaining card to the slot k - 1
\* starts at `promote+=${i * 0.15}` with i = k - 1
MoveStarts(t, k) == MoveAt(t.easing, k - 1)

\* the tweens of one timeline that start in the frame from p to q: the move
\* of each remaining card (lines 433-443) and the return of the front card
\* (lines 487-497); a paused timeline starts nothing, and neither does a
\* frame that ends before the promote label or begins after the last start
StartTweens(t, d) ==
  LET p == t.pos
      q == t.pos + FrameMs
  IN  IF \/ t.paused
         \/ q < PromoteAt(t.easing)
         \/ p >= Max2(ReturnAt(t.easing), MoveStarts(t, Len(t.rest)))
      THEN d
      ELSE [c \in DOMAIN d |->
              IF c = t.front /\ Fired(ReturnAt(t.easing), p, q)
              THEN AtSlot(total - 1)
              ELSE IF /\ Promoted(t, c)
                      /\ Fired(MoveStarts(t, IndexIn(t.rest, c)), p, q)
                   THEN AtSlot(IndexIn(t.rest, c) - 1)
                   ELSE d[c]]

\* the tweens started in one frame, timelines in the order of their creation
RECURSIVE RunTweens(_, _, _)
RunTweens(ts, k, d) ==
  IF k > Len(ts) THEN d ELSE RunTweens(ts, k + 1, StartTweens(ts[k], d))

\* RETURN with the dropped card put on top of the stack
ApplyReturnOnTop(t, st) ==
  [st EXCEPT
     !.zIndex[t.front] = makeSlot(0, cardDistance, verticalDistance, total).zIndex,
     !.isFront[t.front] = FALSE]

\* RETURN, lines 477-515: the dropped card gets the zIndex of the back slot
\* and data-is-front false, and its tween to the back slot starts
ApplyReturn(t, st) ==
  [st EXCEPT
     !.zIndex[t.front] = makeSlot(total - 1, cardDistance,
                                  verticalDistance, total).zIndex,
     !.isFront[t.front] = FALSE]

\* the last callback appending a remaining card instead of the front card
RotatedDup(t) == Append(t.rest, t.rest[1])

\* the last callback writing the captured order back unrotated
Unrotated(t) == <<t.front>> \o t.rest

\* the order written by the last callback of the timeline, line 523
Rotated(t) == Append(t.rest, t.front)

\* UPDATE, lines 522-524
ApplyCommit(t, st) ==
  [st EXCEPT !.order = Rotated(t), !.completed = Bump(st.completed)]

\* one frame of a timeline that renders although it is paused
StepTimelineIgnoringPause(t, st) ==
  LET p == t.pos
      q == t.pos + FrameMs
      s1 == IF Fired(PromoteAt(t.easing), p, q) THEN ApplyPromote(t, st) ELSE st
      s2 == IF Fired(ReturnAt(t.easing), p, q) THEN ApplyReturn(t, s1) ELSE s1
  IN  IF Fired(t.end, p, q) THEN ApplyCommit(t, s2) ELSE s2

\* one frame of one timeline
StepTimeline(t, st) ==
  IF t.paused THEN st
  ELSE LET p == t.pos
           q == t.pos + FrameMs
           s1 == IF Fired(PromoteAt(t.easing), p, q)
                 THEN ApplyPromote(t, st) ELSE st
           s2 == IF Fired(ReturnAt(t.easing), p, q)
                 THEN ApplyReturn(t, s1) ELSE s1
       IN  IF Fired(t.end, p, q)
           THEN ApplyCommit(t, s2) ELSE s2

\* the ticker renders the timelines in the order they were created
RECURSIVE RunFrame(_, _, _)
RunFrame(ts, k, st) ==
  IF k > Len(ts) THEN st ELSE RunFrame(ts, k + 1, StepTimeline(ts[k], st))

Advance(t) == IF t.paused THEN t ELSE [t EXCEPT !.pos = t.pos + FrameMs]
Unfinished(t) == t.pos < t.end
AdvanceAll(ts) == SelectSeq([i \in 1 .. Len(ts) |-> Advance(ts[i])], Unfinished)

\* ------------------------------------------------------------------ timers
\* fresh: armed by a resume() that followed a pause(), callback not yet run
NewTimer(d, e, f) ==
  [elapsed |-> 0, delay |-> d, easing |-> e, cur |-> TRUE, fresh |-> f]
Due(t) == t.elapsed >= t.delay
NotCur(t) == ~t.cur

\* window.setInterval(swap, delay), the id is stored in intervalRef.current
SetInterval(ts, d, e, f) == Append(Uncur(ts), NewTimer(d, e, f))

\* clearInterval(intervalRef.current)
ClearInterval(ts) == SelectSeq(ts, NotCur)

\* pause() and play() with a play() that leaves a paused timeline paused
SetPausedNoPlay(ts, b) ==
  [i \in 1 .. Len(ts) |->
     IF ts[i].cur THEN [ts[i] EXCEPT !.paused = (b \/ @)] ELSE ts[i]]

\* tlRef.current?.pause() and tlRef.current?.play()
SetPaused(ts, b) ==
  [i \in 1 .. Len(ts) |-> IF ts[i].cur THEN [ts[i] EXCEPT !.paused = b] ELSE ts[i]]

\* the effect body arming the interval before the first swap()
EffectNextArmFirst(p) ==
  CASE p = "place" -> "arm"
    [] p = "arm" -> "swap"
    [] p = "swap" -> "idle"

\* order of the statements of the effect body, lines 358-562
EffectNext(p) ==
  CASE p = "place" -> "swap"
    [] p = "swap" -> "arm"
    [] p = "arm" -> "idle"

\* -------------------------------------------------------------------- Init
\* the engine after the first render: the refs of the children that forward
\* their ref are attached, the effect has not run
EngineInit ==
  /\ total \in 0 .. MaxCards
  /\ order = Identity(total)
  /\ live \in SUBSET (0 .. (total - 1))
  /\ phase = "new"
  /\ pc = "idle"
  /\ props \in [delay : Delays, easing : Easings, pauseOnHover : BOOLEAN]
  /\ listening = FALSE
  /\ hover = FALSE
  /\ timers = <<>>
  /\ tls = <<>>
  /\ zIndex = [c \in 0 .. (total - 1) |-> 0]
  /\ isFront = [c \in 0 .. (total - 1) |-> FALSE]
  /\ dest = [c \in 0 .. (total - 1) |-> Unplaced]
  /\ calls = 0
  /\ completed = 0
  /\ stalled = FALSE
  /\ restarts = 0
  /\ held = FALSE
  /\ clicked = NoClick

SlotIdle == slotArgs = [distX |-> 0, distY |-> 0, total |-> 0] /\ slots = <<>>

\* AboutSection before its effect has run: useState(0), nothing observed
AboutIdle ==
  /\ activeCard = 0
  /\ inBand = [r \in Regions |-> "unknown"]
  /\ entries = <<>>
  /\ observer = "none"

\* no image chosen: the value of useState(null)
NoImage == "null"

\* Home after its first render: useState(null), useState('dark'); the modal
\* renders nothing and its effect has touched nothing
ModalIdle ==
  modal = [image |-> NoImage, theme |-> "dark", isOpen |-> FALSE,
           keydown |-> FALSE, overflow |-> "", event |-> "none"]

\* CursorFollow before its effect has run: the refs as useRef creates them,
\* the pointer at the origin
CursorIdle ==
  cursor = [phase |-> "new", listening |-> FALSE, frames |-> <<>>,
            mouse |-> [x |-> 0, y |-> 0], target |-> [x |-> 0, y |-> 0],
            position |-> [x |-> 0, y |-> 0]]

PageIdle == ModalIdle /\ CursorIdle

Init ==
  /\ EngineInit
  /\ live = 0 .. (total - 1)
  /\ SlotIdle
  /\ AboutIdle
  /\ PageIdle

\* ----------------------------------------------------------------- actions
\* first run of the effect after the component is rendered
Mount ==
  /\ phase = "new" /\ pc = "idle"
  /\ phase' = "active"
  /\ pc' = "place"
  /\ UNCHANGED <<total, order, live, props, listening, hover, timers, tls,
                 zIndex, isFront, dest, calls, completed, stalled, restarts, held>>
  /\ UNCHANGED <<clicked, slotVars, aboutVars, pageVars>>

\* lines 362-379: refs.forEach placeNow(makeSlot(i)) and data-is-front
EffectPlace ==
  /\ pc = "place"
  /\ zIndex' = [c \in Cards |->
                  IF c \in live
                  THEN makeSlot(c, cardDistance, verticalDistance, total).zIndex
                  ELSE zIndex[c]]
  /\ isFront' = [c \in Cards |-> IF c \in live THEN c = 0 ELSE isFront[c]]
  /\ dest' = [c \in Cards |-> IF c \in live THEN AtSlot(c) ELSE dest[c]]
  /\ pc' = EffectNext("place")
  /\ UNCHANGED <<total, order, live, phase, props, listening, hover, timers,
                 tls, calls, completed, stalled, restarts, held>>
  /\ UNCHANGED <<clicked, slotVars, aboutVars, pageVars>>

\* line 528: swap()
EffectSwap ==
  /\ pc = "swap"
  /\ tls' = SwapTls(props.easing)
  /\ calls' = Bump(calls)
  /\ stalled' = SwapStalled
  /\ pc' = EffectNext("swap")
  /\ UNCHANGED <<total, order, live, phase, props, listening, hover, timers,
                 zIndex, isFront, dest, completed, restarts, held>>
  /\ UNCHANGED <<clicked, slotVars, aboutVars, pageVars>>

\* lines 531-555: setInterval(swap, delay); addEventListener if pauseOnHover
EffectArm ==
  /\ pc = "arm"
  /\ timers' = SetInterval(timers, props.delay, props.easing, FALSE)
  /\ listening' = props.pauseOnHover
  /\ pc' = EffectNext("arm")
  /\ UNCHANGED <<total, order, live, phase, props, hover, tls, zIndex,
                 isFront, dest, calls, completed, stalled, restarts, held>>
  /\ UNCHANGED <<clicked, slotVars, aboutVars, pageVars>>

\* one frame: time advances by FrameMs for every armed interval and every
\* playing timeline; a runnable interval callback runs before the next frame
Tick ==
  /\ pc = "idle" /\ phase # "new"
  /\ \A i \in 1 .. Len(timers) : ~Due(timers[i])
  /\ LET st == RunFrame(tls, 1, [order |-> order, zIndex |-> zIndex,
                                 isFront |-> isFront,
                                 completed |-> completed])
     IN  /\ order' = st.order
         /\ zIndex' = st.zIndex
         /\ isFront' = st.isFront
         /\ dest' = RunTweens(tls, 1, dest)
         /\ completed' = st.completed
  /\ tls' = AdvanceAll(tls)
  /\ timers' = [i \in 1 .. Len(timers) |->
                  [timers[i] EXCEPT !.elapsed = timers[i].elapsed + FrameMs]]
  /\ UNCHANGED <<total, live, phase, pc, props, listening, hover, calls,
                 stalled, restarts, held>>
  /\ UNCHANGED <<clicked, slotVars, aboutVars, pageVars>>

\* the callback of an armed interval runs: swap() of the closure that armed it
TimerFire(i) ==
  /\ pc = "idle"
  /\ Due(timers[i])
  /\ tls' = SwapTls(timers[i].easing)
  /\ calls' = Bump(calls)
  /\ stalled' = SwapStalled
  /\ timers' = [timers EXCEPT ![i].elapsed = 0, ![i].fresh = FALSE]
  /\ UNCHANGED <<total, order, live, phase, pc, props, listening, hover,
                 zIndex, isFront, dest, completed, restarts, held>>
  /\ UNCHANGED <<clicked, slotVars, aboutVars, pageVars>>

\* mouseenter on the container; pause() of lines 541-544 if subscribed
PointerEnter ==
  /\ pc = "idle" /\ phase = "active" /\ ~hover
  /\ hover' = TRUE
  /\ IF listening
     THEN /\ tls' = SetPaused(tls, TRUE)
          /\ timers' = ClearInterval(timers)
     ELSE UNCHANGED <<tls, timers>>
  /\ held' = listening
  /\ UNCHANGED <<total, order, live, phase, pc, props, listening, zIndex,
                 isFront, dest, calls, completed, stalled, restarts>>
  /\ UNCHANGED <<clicked, slotVars, aboutVars, pageVars>>

\* mouseleave on the container; resume() of lines 547-550 if subscribed
PointerLeave ==
  /\ pc = "idle" /\ phase = "active" /\ hover
  /\ hover' = FALSE
  /\ IF listening
     THEN /\ tls' = SetPaused(tls, FALSE)
          /\ timers' = SetInterval(timers, props.delay, props.easing, held)
     ELSE UNCHANGED <<tls, timers>>
  /\ held' = FALSE
  /\ UNCHANGED <<total, order, live, phase, pc, props, listening, zIndex,
                 isFront, dest, calls, completed, stalled, restarts>>
  /\ UNCHANGED <<clicked, slotVars, aboutVars, pageVars>>

\* a dependency of the effect changes: the cleanup of lines 557-565 runs,
\* then the effect body runs again with the new props
ConfigChange(d, e, poh) ==
  /\ pc = "idle" /\ phase = "active"
  /\ restarts < MaxRestarts
  /\ timers' = ClearInterval(timers)
  /\ listening' = FALSE
  /\ props' = [delay |-> d, easing |-> e, pauseOnHover |-> poh]
  /\ pc' = "place"
  /\ restarts' = restarts + 1
  /\ held' = FALSE
  /\ UNCHANGED <<total, order, live, phase, hover, tls, zIndex, isFront, dest,
                 calls, completed, stalled>>
  /\ UNCHANGED <<clicked, slotVars, aboutVars, pageVars>>

\* the component unmounts: the refs are detached and the cleanup runs
Unmount ==
  /\ pc = "idle" /\ phase = "active"
  /\ timers' = ClearInterval(timers)
  /\ listening' = FALSE
  /\ live' = {}
  /\ hover' = FALSE
  /\ phase' = "gone"
  /\ held' = FALSE
  /\ UNCHANGED <<total, order, pc, props, tls, zIndex, isFront, dest, calls,
                 completed, stalled, restarts>>
  /\ UNCHANGED <<clicked, slotVars, aboutVars, pageVars>>

Next ==
  \/ Mount
  \/ EffectPlace
  \/ EffectSwap
  \/ EffectArm
  \/ Tick
  \/ \E i \in 1 .. Len(timers) : TimerFire(i)
  \/ PointerEnter
  \/ PointerLeave
  \/ \E d \in Delays, e \in Easings, poh \in BOOLEAN : ConfigChange(d, e, poh)
  \/ Unmount

Spec == Init /\ [][Next]_vars

TypeOK ==
  /\ total \in 0 .. MaxCards
  /\ phase \in {"new", "active", "gone"}
  /\ pc \in {"idle", "place", "swap", "arm"}
  /\ hover \in BOOLEAN /\ listening \in BOOLEAN

\* ------------------------------------------------- clicks, absent handles
\* the callback argument being the position of the card in order
ClickArgPosition(c) == IndexIn(order, c) - 1

\* line 586 `onCardClick?.(i)`: i is the index of the child in childArr,
\* bound when the child was cloned
ClickArg(c) == c

\* a click on the card c, which is shown at position IndexIn(order, c) - 1
Click(c) ==
  /\ pc = "idle" /\ phase = "active"
  /\ clicked' = [card |-> c, pos |-> IndexIn(order, c) - 1, arg |-> ClickArg(c)]
  /\ UNCHANGED <<total, order, live, phase, pc, props, listening, hover,
                 timers, tls, zIndex, isFront, dest, calls, completed, stalled,
                 restarts, held>>
  /\ UNCHANGED <<slotVars, aboutVars, pageVars>>

\* the engine with any subset of the handles attached, one run of the effect
CardsInit ==
  /\ EngineInit
  /\ SlotIdle
  /\ AboutIdle
  /\ PageIdle

CardsNext ==
  \/ Mount
  \/ EffectPlace
  \/ EffectSwap
  \/ EffectArm
  \/ Tick
  \/ \E i \in 1 .. Len(timers) : TimerFire(i)
  \/ PointerEnter
  \/ PointerLeave
  \/ \E c \in Cards : Click(c)
  \/ Unmount

CardsSpec == CardsInit /\ [][CardsNext]_vars

\* ------------------------------------------------ the engine left running
\* the engine with at least 2 cards and every handle attached, never torn
\* down and never restarted
LiveInit ==
  /\ EngineInit
  /\ total >= 2
  /\ live = 0 .. (total - 1)
  /\ SlotIdle
  /\ AboutIdle
  /\ PageIdle

LiveNext ==
  \/ Mount
  \/ EffectPlace
  \/ EffectSwap
  \/ EffectArm
  \/ Tick
  \/ \E i \in 1 .. Len(timers) : TimerFire(i)
  \/ PointerEnter
  \/ PointerLeave

\* a frame rendered while pause() is not holding the engine
FrameWhilePlaying == Tick /\ ~(hover /\ listening)

\* React runs the effect body to its end; a runnable interval callback is
\* run by the event loop; a pointer that is inside leaves again (the engine
\* is not paused forever); the GSAP ticker renders a frame every few
\* milliseconds, so frames fall into every period in which the pointer is
\* outside
LiveFairness ==
  /\ WF_vars(Mount)
  /\ WF_vars(EffectPlace)
  /\ WF_vars(EffectSwap)
  /\ WF_vars(EffectArm)
  /\ WF_vars(\E i \in 1 .. Len(timers) : TimerFire(i))
  /\ WF_vars(PointerLeave)
  /\ SF_vars(FrameWhilePlaying)

LiveSpec == LiveInit /\ [][LiveNext]_vars /\ LiveFairness

\* --------------------------------------------------------- slot calculator
\* an engine that is never mounted
EngineParked ==
  /\ EngineInit
  /\ total = 0
  /\ props = [delay |-> 5000, easing |-> "elastic", pauseOnHover |-> FALSE]

SlotInit ==
  /\ EngineParked
  /\ AboutIdle
  /\ PageIdle
  /\ slotArgs \in [distX : Deltas, distY : Deltas, total : 0 .. MaxCards]
  /\ slots = <<>>

\* makeSlot applied to every position i of [0, total), as refs.forEach does
\* in lines 362-363
MakeSlots ==
  /\ slots' = [k \in 1 .. slotArgs.total |->
                 makeSlot(k - 1, slotArgs.distX, slotArgs.distY, slotArgs.total)]
  /\ UNCHANGED <<engineVars, slotArgs, aboutVars, pageVars>>

SlotNext == MakeSlots

SlotSpec == SlotInit /\ [][SlotNext]_vars

\* ------------------------------------------------ About section highlighter
\* the attribute data-card-index of the region r: "0", "1", "2"
dataCardIndex(r) == ToString(r)

\* parseInt reading the digit as a 1-based index
parseIntOneBased(s) == (CHOOSE n \in 0 .. 9 : ToString(n) = s) + 1

\* parseInt of a one-digit string
parseInt(s) == CHOOSE n \in 0 .. 9 : ToString(n) = s

Entry == [target : Regions, isIntersecting : BOOLEAN]

Reported(b) == IF b THEN "in" ELSE "out"

\* the batches an IntersectionObserver can deliver: one entry for each of
\* some targets, each reporting a value of isIntersecting that differs from
\* the one last reported for the target (the first report can be either)
Batches ==
  {es \in UNION {[1 .. n -> Entry] : n \in 1 .. NumRegions} :
     /\ \A j, k \in 1 .. Len(es) : es[j].target = es[k].target => j = k
     /\ \A k \in 1 .. Len(es) :
          inBand[es[k].target] # Reported(es[k].isIntersecting)}

\* the callback keeping the first intersecting entry of the batch
firstEntryWins(es, k, active) ==
  IF \E j \in k .. Len(es) : es[j].isIntersecting
  THEN parseInt(dataCardIndex(
         es[CHOOSE j \in k .. Len(es) :
              /\ es[j].isIntersecting
              /\ \A i \in k .. (j - 1) : ~es[i].isIntersecting].target))
  ELSE active

\* lines 45-54: entries.forEach, from entry k on; setActiveCard(index) for
\* every entry with isIntersecting
RECURSIVE forEachEntry(_, _, _)
forEachEntry(es, k, active) ==
  IF k > Len(es) THEN active
  ELSE forEachEntry(es, k + 1,
                    IF es[k].isIntersecting
                    THEN parseInt(dataCardIndex(es[k].target)) ELSE active)

AboutInit ==
  /\ EngineParked
  /\ SlotIdle
  /\ AboutIdle
  /\ PageIdle

\* lines 41-69: the effect creates the observer and observes the three refs
AboutMount ==
  /\ observer = "none"
  /\ observer' = "observing"
  /\ UNCHANGED <<engineVars, slotVars, pageVars, activeCard, inBand, entries>>

\* the observer callback runs with the batch es.  After the unmount the
\* regions are detached: they can only be reported as not intersecting
Notify(es) ==
  /\ \/ observer = "observing"
     \/ observer = "stopped" /\ \A k \in 1 .. Len(es) : ~es[k].isIntersecting
  /\ activeCard' = forEachEntry(es, 1, activeCard)
  /\ inBand' = [r \in Regions |->
                  IF \E k \in 1 .. Len(es) : es[k].target = r
                  THEN Reported(es[CHOOSE k \in 1 .. Len(es) :
                                     es[k].target = r].isIntersecting)
                  ELSE inBand[r]]
  /\ entries' = es
  /\ UNCHANGED <<engineVars, slotVars, pageVars, observer>>

\* lines 71-77: the cleanup of the effect when the section unmounts
AboutUnmount ==
  /\ observer = "observing"
  /\ observer' = "stopped"
  /\ UNCHANGED <<engineVars, slotVars, pageVars, activeCard, inBand, entries>>

AboutNext ==
  \/ AboutMount
  \/ \E es \in Batches : Notify(es)
  \/ AboutUnmount

AboutSpec == AboutInit /\ [][AboutNext]_vars

\* ------------------------------------------------------------ image modal
\* the screenshots of the Projects section that open the modal on a click
Screenshots ==
  {"cafeflow-1", "cafeflow-2", "cafeflow-3",
   "portfolio-1", "portfolio-2", "portfolio-3",
   "mamacare-1", "mamacare-2", "mamacare-3",
   "mamacare-4", "mamacare-5", "mamacare-6"}

Keys == {"Escape", "Enter"}

\* isOpen={!!modalImage}
IsOpen(img) == img # NoImage

\* a render of Home followed by ImageModal's effect, part_003 lines 8-22:
\* onClose is a new function at every render of Home, so the cleanup of the
\* previous run (removeEventListener, overflow 'unset') runs and then the
\* body, which adds the listener and hides the overflow only if isOpen
Render(m) ==
  [m EXCEPT !.isOpen = IsOpen(m.image),
            !.keydown = IsOpen(m.image),
            !.overflow = IF IsOpen(m.image) THEN "hidden" ELSE "unset"]

\* setModalImage(v): setting null while the state is null renders nothing
\* again; an object literal is always a new state
setModalImage(m, v) ==
  IF v = NoImage /\ m.image = NoImage
  THEN m
  ELSE Render([m EXCEPT !.image = v])

\* onClose={() => setModalImage(null)}
onClose(m) == setModalImage(m, NoImage)

\* handleEscape, part_003 lines 9-11
handleEscape(m, k) == IF k = "Escape" THEN onClose(m) ELSE m

\* a click on a screenshot; while the modal is rendered its backdrop
\* (fixed inset-0 z-50) covers the page
ClickScreenshot(img) ==
  /\ ~modal.isOpen
  /\ modal' = [setModalImage(modal, img) EXCEPT !.event = "screenshot"]
  /\ UNCHANGED <<engineVars, slotVars, aboutVars, cursor>>

\* a click on the backdrop outside the window: onClick={onClose}
ClickBackdrop ==
  /\ modal.isOpen
  /\ modal' = [onClose(modal) EXCEPT !.event = "backdrop"]
  /\ UNCHANGED <<engineVars, slotVars, aboutVars, cursor>>

\* a click on the red button or on the X button: onClick={onClose}; the
\* click then bubbles to the window, which stops it
ClickClose(b) ==
  /\ modal.isOpen
  /\ modal' = [onClose(modal) EXCEPT !.event = b]
  /\ UNCHANGED <<engineVars, slotVars, aboutVars, cursor>>

\* a click inside the window that reaches the backdrop as well
ClickWindowBubbles ==
  /\ modal.isOpen
  /\ modal' = [onClose(modal) EXCEPT !.event = "window"]
  /\ UNCHANGED <<engineVars, slotVars, aboutVars, cursor>>

\* a click inside the window (image, title, the yellow and green buttons,
\* which have no handler): onClick={(e) => e.stopPropagation()}
ClickWindow ==
  /\ modal.isOpen
  /\ modal' = [modal EXCEPT !.event = "window"]
  /\ UNCHANGED <<engineVars, slotVars, aboutVars, cursor>>

\* a key is pressed: handleEscape runs if the keydown listener is attached
KeyDown(k) ==
  /\ modal' = [(IF modal.keydown THEN handleEscape(modal, k) ELSE modal)
               EXCEPT !.event = k]
  /\ UNCHANGED <<engineVars, slotVars, aboutVars, cursor>>

\* toggleTheme: Home renders again with modalImage as it is
ToggleTheme ==
  /\ modal' = [Render([modal EXCEPT
                          !.theme = IF @ = "dark" THEN "light" ELSE "dark"])
               EXCEPT !.event = "theme"]
  /\ UNCHANGED <<engineVars, slotVars, aboutVars, cursor>>

ModalInit ==
  /\ EngineParked
  /\ SlotIdle
  /\ AboutIdle
  /\ PageIdle

ModalNext ==
  \/ \E img \in Screenshots : ClickScreenshot(img)
  \/ ClickBackdrop
  \/ \E b \in {"red", "x"} : ClickClose(b)
  \/ ClickWindow
  \/ \E k \in Keys : KeyDown(k)
  \/ ToggleTheme

ModalSpec == ModalInit /\ [][ModalNext]_vars

\* ---------------------------------------------------------- cursor follower
\* the pointer positions the model draws from, in whole pixels
Coords == {0, 100}
Points == [x : Coords, y : Coords]

\* position += (target - position) * speed, in whole pixels
lerp(p, t) == p + ((t - p) * speedPct) \div 100

\* animate, lines 22-32, run once for each of n requested frames
RECURSIVE animate(_, _, _)
animate(n, pos, target) ==
  IF n = 0 THEN pos
  ELSE animate(n - 1, [x |-> lerp(pos.x, target.x),
                       y |-> lerp(pos.y, target.y)], target)

\* requestAnimationFrame(animate), its id stored in animationRef.current
RequestFrame(fs) == Append(Uncur(fs), [cur |-> TRUE])

\* the callbacks of n frames have run and each has requested the next one
RECURSIVE Rerequest(_)
Rerequest(n) == IF n = 0 THEN <<>> ELSE RequestFrame(Rerequest(n - 1))

\* a cleanup that cancels nothing
CancelNothing(fs) == fs

\* cancelAnimationFrame(animationRef.current), lines 39-41
CancelFrame(fs) == SelectSeq(fs, NotCur)

\* the effect of lines 11-36; the div of cursorRef is always rendered
CursorMount ==
  /\ cursor.phase = "new"
  /\ cursor' = [cursor EXCEPT !.phase = "mounted",
                              !.listening = TRUE,
                              !.frames = RequestFrame(@)]
  /\ UNCHANGED <<engineVars, slotVars, aboutVars, modal>>

\* the pointer moves to p; handleMouseMove runs if it is subscribed
MouseMove(p) ==
  /\ p # cursor.mouse
  /\ cursor' = [cursor EXCEPT !.mouse = p,
                              !.target = IF cursor.listening THEN p ELSE @]
  /\ UNCHANGED <<engineVars, slotVars, aboutVars, modal>>

\* the browser renders a frame: every requested callback runs
AnimationFrame ==
  /\ cursor.frames # <<>>
  /\ cursor' = [cursor EXCEPT
                  !.position = animate(Len(cursor.frames), @, cursor.target),
                  !.frames = Rerequest(Len(cursor.frames))]
  /\ UNCHANGED <<engineVars, slotVars, aboutVars, modal>>

\* the cleanup of lines 37-42
CursorUnmount ==
  /\ cursor.phase = "mounted"
  /\ cursor' = [cursor EXCEPT !.phase = "gone",
                              !.listening = FALSE,
                              !.frames = CancelFrame(@)]
  /\ UNCHANGED <<engineVars, slotVars, aboutVars, modal>>

CursorInit ==
  /\ EngineParked
  /\ SlotIdle
  /\ AboutIdle
  /\ PageIdle

CursorNext ==
  \/ CursorMount
  \/ \E p \in Points : MouseMove(p)
  \/ AnimationFrame
  \/ CursorUnmount

CursorSpec == CursorInit /\ [][CursorNext]_vars

\* ================================================================== claims
\* the reference scenario of the home page: 3 cards, delay 5000, elastic,
\* pauseOnHover off, the effect has run once and is not running now
Scenario ==
  /\ total = 3
  /\ props = [delay |-> 5000, easing |-> "elastic", pauseOnHover |-> FALSE]
  /\ restarts = 0
  /\ phase = "active"
  /\ pc = "idle"

\* the interval armed by the resume() that ended a pause has not yet run for
\* one full period
FreshWindow ==
  \E i \in 1 .. Len(timers) :
    timers[i].cur /\ timers[i].fresh /\ timers[i].elapsed < timers[i].delay

\* this step calls swap and swap builds a timeline
RotationIssued == calls' # calls /\ SwapRuns

\* this step is a mouseleave handled by resume()
Resumed == hover /\ ~hover' /\ listening /\ phase' = "active"

\* C1: for N >= 2, after k completed rotation cycles Order is the identity
\* rotated left by k mod N (each completed cycle moves the front to the back)
C1_OrderIsRotationByCycles ==
  (total >= 2 /\ completed < MaxCycles)
    => order = RotateLeft(Identity(total), completed % total)

\* C2: in every reachable state Order is a permutation of 0..N-1
C2_OrderIsPermutation == IsPermutation(order, total)

C2_Witness ==
  /\ phase = "gone" /\ restarts >= 1 /\ completed >= 2
  /\ order # Identity(total)

C4_StartOrder ==
  /\ pc = "swap" => \A c \in Cards : zIndex[c] = total - c
  /\ (pc \in {"place", "swap"} /\ restarts = 0) => (timers = <<>> /\ calls = 0)
  /\ pc = "arm" => /\ calls >= 1
                   /\ total >= 2 => \E i \in 1 .. Len(tls) :
                                      tls[i].cur /\ tls[i].pos = 0
                   /\ restarts = 0 => timers = <<>>
  /\ timers # <<>> => /\ calls >= 1
                      /\ \A c \in Cards : zIndex[c] # 0

C4_Witness ==
  /\ phase = "active" /\ pc = "idle" /\ restarts = 0 /\ total = 3
  /\ Len(timers) = 1 /\ timers[1].elapsed = 0 /\ calls = 1
  /\ Len(tls) = 1 /\ tls[1].pos = 0

\* C5: with fewer than 2 cards swap never changes Order and never builds a
\* timeline, however often it is called
C5_FewCardsNoOp ==
  total < 2 => (order = Identity(total) /\ tls = <<>> /\ completed = 0)

C5_Witness == total = 1 /\ calls >= 3 /\ restarts = 0 /\ phase = "active"

\* C6: between the pause() of a pointer-enter and the next pointer-leave no
\* rotation cycle completes and Order does not change
C6_NoCycleCompletesWhileHeld ==
  [][(held /\ held') => (order' = order /\ completed' = completed)]_vars

\* C7: after the pause() of a pointer-enter no rotation is issued until the
\* pointer has left and a full interval has elapsed since
C7_NoRotationUntilLeavePlusInterval ==
  [][(held \/ FreshWindow) => ~RotationIssued]_vars

\* C8: pointer-leave arms an interval with nothing elapsed and the configured
\* period, and after a pause and resume no rotation is issued before that
\* period has elapsed
C8_ResumeArmsFullInterval ==
  [][/\ Resumed => \E i \in 1 .. Len(timers') :
                     /\ timers'[i].cur /\ timers'[i].elapsed = 0
                     /\ timers'[i].delay = props.delay
     /\ (FreshWindow /\ ~hover) => ~RotationIssued]_vars

\* C9: after the cleanup of an unmount no interval remains armed
C9_NoTimerAfterTeardown == phase = "gone" => timers = <<>>

\* C10: at most one rotation cycle is in flight at any time
C10_OneCycleInFlight == Len(tls) <= 1

\* ------------------------------------------------------------ C11 .. C20
\* C11: makeSlot is defined for every position i of [0, total) and returns
\* x = i * distX, y = -i * distY, z = -1.5 * i * distX (z2 = 2 * z) and
\* zIndex = total - i, so zIndex is strictly decreasing in i and highest at
\* the front; computing the slots changes nothing else
C11_SlotValues ==
  /\ [](/\ Len(slots) \in {0, slotArgs.total}
        /\ \A k \in 1 .. Len(slots) :
             /\ slots[k].x = (k - 1) * slotArgs.distX
             /\ slots[k].y = 0 - (k - 1) * slotArgs.distY
             /\ slots[k].z2 = 0 - 3 * (k - 1) * slotArgs.distX
             /\ slots[k].zIndex = slotArgs.total - (k - 1)
             /\ \A j \in 1 .. (k - 1) : slots[j].zIndex > slots[k].zIndex
             /\ slots[1].zIndex >= slots[k].zIndex)
  /\ [][slots' # slots => UNCHANGED <<engineVars, aboutVars, slotArgs>>]_vars

C11_Witness ==
  /\ slotArgs = [distX |-> cardDistance, distY |-> verticalDistance, total |-> 3]
  /\ Len(slots) = 3
  /\ slots[3] = [x |-> 120, y |-> -140, z2 |-> -360, zIndex |-> 1]

\* C12 as stated: the click callback receives the position at which the
\* clicked card is shown (its position in Order)
C12_AsStated == clicked # NoClick => clicked.arg = clicked.pos

\* C12 amended: the click callback receives the index of the clicked card in
\* the list of children, whatever its position in Order; the two agree as
\* long as no rotation has completed
C12_ClickReceivesCardIndex ==
  clicked # NoClick =>
    /\ clicked.arg = clicked.card
    /\ clicked.card \in Cards
    /\ completed = 0 => clicked.arg = clicked.pos

C12_Witness ==
  /\ total = 3 /\ completed = 1
  /\ clicked = [card |-> 0, pos |-> 2, arg |-> 0]

\* C13 as stated: a swap of at least two cards of which some card has a
\* handle schedules a cycle, whichever card lacks its handle
C13_AsStated ==
  [][(calls' # calls /\ Len(order) >= 2
        /\ \E k \in 1 .. Len(order) : order[k] \in live)
       => /\ Len(tls') = Len(tls) + 1
          /\ tls'[Len(tls')].pos = 0]_vars

\* C13 amended: nothing is done to a card without a handle.  When a
\* remaining card has no handle only its PROMOTE is left out: the cycle is
\* scheduled with the PROMOTE of every remaining card that has one, and the
\* RETURN and the Order update still run.  When the front card has no handle
\* swap returns before it schedules anything: no cycle is in flight and
\* Order stays as it is
C13_AbsentHandles ==
  /\ [](/\ \A i \in 1 .. Len(tls) : tls[i].front \in tls[i].els
        /\ phase = "active" =>
             \A c \in Cards \ live : zIndex[c] = 0 /\ ~isFront[c]
        /\ (phase = "active" /\ total >= 2 /\ order[1] \notin live)
             => tls = <<>>
        /\ (total >= 2 /\ 0 \notin live /\ phase # "gone")
             => (order = Identity(total) /\ completed = 0))
  /\ [][/\ (calls' # calls /\ Len(order) >= 2 /\ order[1] \in live)
             => /\ Len(tls') = Len(tls) + 1
                /\ tls'[Len(tls')].pos = 0
                /\ tls'[Len(tls')].els = live
        /\ \A i \in 1 .. Len(tls) :
             (/\ Len(tls') >= i
              /\ tls'[i].pos = tls[i].pos + FrameMs
              /\ tls[i].pos < PromoteAt(tls[i].easing)
              /\ PromoteAt(tls[i].easing) <= tls'[i].pos)
               => \A k \in 1 .. Len(tls[i].rest) :
                    tls[i].rest[k] \in tls[i].els
                      => zIndex'[tls[i].rest[k]] = total - (k - 1)]_vars

C13_Witness ==
  /\ total = 3 /\ live = {0, 2} /\ phase = "active"
  /\ completed = 1 /\ order = <<1, 2, 0>>
  /\ zIndex = [c \in 0 .. 2 |-> IF c = 1 THEN 0 ELSE IF c = 2 THEN 2 ELSE 1]
  /\ calls >= 2 /\ tls = <<>>

\* C14: Order changes only in the frame in which a playing timeline reaches
\* its end, and then to [...rest, front] of that timeline; the placement, the
\* swap call, pause, resume, a click, the teardown and a PROMOTE left out for
\* a missing handle leave it as it is
C14_OrderOnlyByCommit ==
  [][order' # order =>
       /\ pc = "idle" /\ pc' = "idle"
       /\ phase' = phase /\ live' = live
       /\ hover' = hover /\ listening' = listening /\ held' = held
       /\ clicked' = clicked
       /\ calls' = calls
       /\ zIndex' = zIndex /\ isFront' = isFront
       /\ \E i \in 1 .. Len(tls) :
            /\ ~tls[i].paused
            /\ tls[i].pos < tls[i].end
            /\ tls[i].end <= tls[i].pos + FrameMs
            /\ order' = Append(tls[i].rest, tls[i].front)]_vars

C14_Witness ==
  /\ total = 3 /\ live = {0, 1} /\ completed = 1 /\ order = <<1, 2, 0>>
  /\ clicked # NoClick
  /\ hover /\ listening
  /\ Len(tls) = 1 /\ tls[1].paused /\ tls[1].pos > 0

\* C15: after every observer callback the active index is the index of the
\* last entry of the batch that reports a region in the band, whatever was
\* active before and whichever regions are still in the band; a batch
\* without such an entry leaves it as it was
C15_LastEnteredWins ==
  [][inBand' # inBand =>
       IF \E k \in 1 .. Len(entries') : entries'[k].isIntersecting
       THEN \E k \in 1 .. Len(entries') :
              /\ entries'[k].isIntersecting
              /\ \A j \in (k + 1) .. Len(entries') : ~entries'[j].isIntersecting
              /\ activeCard' = entries'[k].target
       ELSE activeCard' = activeCard]_vars

C15_Witness ==
  /\ entries = <<[target |-> 2, isIntersecting |-> TRUE],
                 [target |-> 0, isIntersecting |-> TRUE]>>
  /\ inBand[1] = "in"
  /\ activeCard = 0

\* C16: the active index is 0 until the first callback, is always 0, 1 or
\* 2, changes only to a region that the callback reports as having come
\* into the band, and is left as it was by a batch of regions leaving it
C16_OneActiveRegion ==
  /\ [](/\ activeCard \in Regions
        /\ entries = <<>> => activeCard = 0)
  /\ [][/\ activeCard' # activeCard =>
             /\ inBand[activeCard'] # "in"
             /\ inBand'[activeCard'] = "in"
             /\ \E k \in 1 .. Len(entries') :
                  /\ entries'[k].target = activeCard'
                  /\ entries'[k].isIntersecting
        /\ (inBand' # inBand
            /\ \A k \in 1 .. Len(entries') : ~entries'[k].isIntersecting)
             => activeCard' = activeCard]_vars

C16_Witness ==
  /\ activeCard = 1
  /\ inBand = [r \in Regions |-> "out"]
  /\ entries = <<[target |-> 1, isIntersecting |-> FALSE]>>

\* C17: whenever the effect starts (first run or re-run after a dependency
\* change) Order is the identity
C17_OrderIdentityAtStart == pc = "place" => order = Identity(total)

\* C18: after the teardown of an unmount no card's zIndex or data-is-front
\* and no Order value changes any more
C18_NothingChangesAfterTeardown ==
  [][phase = "gone" =>
       (order' = order /\ zIndex' = zIndex /\ isFront' = isFront)]_vars

C20_PhaseOrder ==
  \A i \in 1 .. Len(tls) :
    LET t == tls[i]
        e == tls[i].easing
    IN  /\ 0 < PromoteAt(e) /\ PromoteAt(e) < durDrop(e)
        /\ PromoteAt(e) < ReturnAt(e)
        /\ \A k \in 1 .. Len(t.rest) : PromoteAt(e) <= MoveAt(e, k - 1)
        /\ durDrop(e) <= t.end
        /\ ReturnAt(e) + durReturn(e) <= t.end
        /\ \A k \in 1 .. Len(t.rest) :
             t.rest[k] \in t.els => MoveAt(e, k - 1) + durMove(e) <= t.end
        /\ t.pos < t.end
        /\ order = <<t.front>> \o t.rest
        /\ t.pos < PromoteAt(e) => zIndex[t.front] = total
        /\ t.pos >= PromoteAt(e) =>
             \A k \in 1 .. Len(t.rest) :
               t.rest[k] \in t.els => zIndex[t.rest[k]] = total - (k - 1)
        /\ t.pos >= ReturnAt(e) => (zIndex[t.front] = 1 /\ ~isFront[t.front])

C20_Witness ==
  /\ total = 3
  /\ Len(tls) = 1 /\ tls[1].easing = "power" /\ tls[1].els = {0, 1, 2}
  /\ tls[1].pos >= ReturnAt("power") /\ tls[1].pos < CommitAt("power", 3)
  /\ completed = 1 /\ order = <<1, 2, 0>>
  /\ zIndex = [c \in 0 .. 2 |-> IF c = 2 THEN 3 ELSE IF c = 0 THEN 2 ELSE 1]

\* ------------------------------------------------------------ C21 .. C30
\* C21: in every cycle the remaining card at position j >= 1 of the captured
\* order is sent to slot j - 1, and its move starts (j - 1) * 0.15 s after
\* the start of PROMOTE: until then it is still at slot j
C21_StaggeredMoves ==
  \A i \in 1 .. Len(tls) :
    \A j \in 1 .. Len(tls[i].rest) :
      LET t == tls[i]
          c == tls[i].rest[j]
          start == PromoteAt(tls[i].easing) + (j - 1) * StaggerMs
      IN  c \in t.els =>
            /\ t.pos < start => dest[c] = j
            /\ t.pos >= start => dest[c] = j - 1

C21_Witness ==
  /\ total = 3 /\ live = {0, 1, 2} /\ order = <<0, 1, 2>>
  /\ Len(tls) = 1 /\ tls[1].easing = "power" /\ tls[1].pos = FrameMs
  /\ dest[1] = 0 /\ dest[2] = 2

\* C22 as stated: the zIndex of a remaining card changes at the start of its
\* own staggered move, not earlier
C22_AsStated ==
  \A i \in 1 .. Len(tls) :
    \A j \in 1 .. Len(tls[i].rest) :
      (/\ tls[i].rest[j] \in tls[i].els
       /\ tls[i].pos < PromoteAt(tls[i].easing) + (j - 1) * StaggerMs)
        => zIndex[tls[i].rest[j]] = total - j

\* C22 amended: every remaining card gets the zIndex of its new slot at the
\* PROMOTE label, the start of the first card's move; for the card at
\* position j >= 2 that is (j - 1) * 0.15 s before its own move starts
C22_ZIndexAtPromoteLabel ==
  \A i \in 1 .. Len(tls) :
    \A j \in 1 .. Len(tls[i].rest) :
      LET t == tls[i]
          c == tls[i].rest[j]
      IN  c \in t.els =>
            /\ t.pos < PromoteAt(t.easing) =>
                 (zIndex[c] = total - j /\ dest[c] = j)
            /\ t.pos >= PromoteAt(t.easing) => zIndex[c] = total - (j - 1)

C22_Witness ==
  /\ total = 3 /\ live = {0, 1, 2} /\ order = <<0, 1, 2>>
  /\ Len(tls) = 1 /\ tls[1].easing = "power" /\ tls[1].pos = FrameMs
  /\ tls[1].pos < PromoteAt("power") + StaggerMs
  /\ zIndex[2] = 2 /\ dest[2] = 2

\* C23: from the start of RETURN on the dropped card is on its way to the
\* back slot total - 1 and has the back zIndex 1, which is lower than the
\* zIndex of every other card that has a handle; before RETURN it is still
\* the card of slot 0 with the front zIndex
C23_ReturnToBack ==
  \A i \in 1 .. Len(tls) :
    LET t == tls[i]
    IN  /\ t.pos < ReturnAt(t.easing) =>
             (dest[t.front] = 0 /\ zIndex[t.front] = total)
        /\ t.pos >= ReturnAt(t.easing) =>
             /\ dest[t.front] = total - 1
             /\ zIndex[t.front] = 1
             /\ \A c \in t.els \ {t.front} : zIndex[c] > zIndex[t.front]

C23_Witness ==
  /\ total = 3 /\ live = {0, 1, 2} /\ order = <<0, 1, 2>>
  /\ Len(tls) = 1 /\ tls[1].easing = "elastic"
  /\ tls[1].pos >= ReturnAt("elastic")
  /\ dest[0] = 2 /\ dest[1] = 0 /\ dest[2] = 1
  /\ zIndex[0] = 1 /\ zIndex[1] = 3 /\ zIndex[2] = 2

\* C24 as stated: in the reference configuration (delay 5000, elastic) the
\* timer period is at least the sum of the three phase durations
C24_AsStated ==
  \A i \in 1 .. Len(timers) :
    (timers[i].delay = 5000 /\ timers[i].easing = "elastic")
      => timers[i].delay >= durDrop("elastic") + durMove("elastic")
                            + durReturn("elastic")

\* C24 amended: in the reference configuration the timer period is less
\* than the sum of the three phase durations (6 s) but at least the length
\* of a cycle, whose phases overlap (2.35 s with 3 cards); so a cycle that
\* is never paused has ended before the timer starts the next one
C24_PeriodCoversCycle ==
  /\ \A i \in 1 .. Len(timers) :
       (timers[i].delay = 5000 /\ timers[i].easing = "elastic") =>
         /\ timers[i].delay < durDrop("elastic") + durMove("elastic")
                               + durReturn("elastic")
         /\ \A j \in 1 .. Len(tls) :
              tls[j].easing = "elastic" =>
                /\ tls[j].end <= timers[i].delay
                /\ (total = 3 /\ tls[j].els = Cards) => tls[j].end = 2350
  /\ Scenario => Len(tls) <= 1

C24_Witness ==
  /\ Scenario /\ live = {0, 1, 2} /\ calls = 2
  /\ Len(timers) = 1 /\ timers[1].delay = 5000
  /\ Len(tls) = 1 /\ tls[1].end = 2350 /\ tls[1].pos >= 2000
  /\ order = <<1, 2, 0>>

\* C25: at most one repeating timer is armed at any time, whatever the
\* sequence of pointer-enter and pointer-leave events
C25_AtMostOneTimer == Len(timers) <= 1

\* C26: whenever no rotation cycle is in flight and every card has its
\* handle, the card at position p of Order (counted from 0) is at slot p
\* with zIndex N - p, and the card marked as front is exactly Order[0]
C26_VisualAgreesWithOrder ==
  (/\ phase = "active" /\ pc = "idle"
   /\ tls = <<>> /\ live = Cards)
    => \A p \in 1 .. Len(order) :
         /\ dest[order[p]] = p - 1
         /\ zIndex[order[p]] = total - (p - 1)
         /\ isFront[order[p]] <=> (p = 1)

C28_ModalFollowsImage ==
  /\ [](/\ modal.isOpen <=> modal.image # NoImage
        /\ modal.keydown <=> modal.isOpen
        /\ modal.isOpen => modal.overflow = "hidden")
  /\ [][LET same == [modal' EXCEPT !.event = "none"]
                      = [modal EXCEPT !.event = "none"]
        IN  /\ modal'.event = "screenshot" =>
                 (modal'.image \in Screenshots /\ modal'.isOpen)
            /\ modal'.event \in {"backdrop", "red", "x"} =>
                 (modal'.image = NoImage /\ ~modal'.isOpen)
            /\ (modal'.event = "Escape" /\ modal.isOpen) =>
                 (modal'.image = NoImage /\ ~modal'.isOpen)
            /\ (modal'.event = "Escape" /\ ~modal.isOpen) => same
            /\ modal'.event \in {"window", "Enter"} => same]_vars

C28_Witness ==
  /\ modal.event = "window" /\ modal.isOpen /\ modal.keydown
  /\ modal.image = "mamacare-6" /\ modal.theme = "light"
  /\ modal.overflow = "hidden"

\* C29: at most one animation frame is requested at any time, exactly one
\* while the component is mounted; after the teardown the mousemove
\* listener is removed, no frame is requested, and neither the target nor
\* the position is updated again, wherever the pointer goes
C29_OneFrameRequested ==
  /\ [](/\ Len(cursor.frames) <= 1
        /\ cursor.phase = "mounted" =>
             (cursor.listening /\ Len(cursor.frames) = 1)
        /\ cursor.phase = "gone" =>
             (~cursor.listening /\ cursor.frames = <<>>))
  /\ [][cursor.phase = "gone" =>
          /\ cursor'.phase = "gone"
          /\ cursor'.frames = <<>>
          /\ cursor'.target = cursor.target
          /\ cursor'.position = cursor.position]_vars

C29_Witness ==
  /\ cursor.phase = "gone"
  /\ cursor.target = [x |-> 100, y |-> 100]
  /\ cursor.mouse = [x |-> 0, y |-> 100]
  /\ cursor.position.x > 0 /\ cursor.position.x < 100

====
